---- MODULE Spec2Model ----
(***************************************************************************)
(* The endpoint and cors method decorators of src/decorators.ts.           *)
(*                                                                         *)
(* A decorated handler method is replaced by a wrapper.  A dispatch is one *)
(* call of that wrapper with (event, context, validations).  The wrapper   *)
(* runs synchronously up to the call of the wrapped method; the callbacks  *)
(* it attached with .then / .catch run later, one per step, once the       *)
(* promise they hang on has settled.                                       *)
(***************************************************************************)
EXTENDS Integers, Sequences, FiniteSets, TLC

VARIABLES
    pc,            \* per dispatch: where the wrapper's promise chain stands
    args,          \* per dispatch: the arguments of the call (event, validations)
    config,        \* per dispatch: the decoration of the method that was called
    settled,       \* per dispatch: the value or error the chain currently carries
    result,        \* per dispatch: what the wrapper returned / resolved to
    handlerResult, \* per dispatch: how the undecorated handler settled
    handlerCalls,  \* per dispatch: number of calls of the undecorated handler
    validateCalls, \* per dispatch: the schemas handed to the validator, in order
    originCalls,   \* per dispatch: number of calls of the allowedOrigin function
    resolved,      \* per dispatch: the route the registry resolved the request to
    endpointRouter, \* the routes EndpointRouter.register was given, in order
    router,        \* the routes Router.register was given (xdelete), in order
    decorated,     \* the decorator applications so far, in order
    registerCalls  \* number of register calls so far

vars == <<pc, args, config, settled, result, handlerResult, handlerCalls,
          validateCalls, originCalls, resolved, endpointRouter, router,
          decorated, registerCalls>>

-----------------------------------------------------------------------------
(* Bounds and input domains *)

MaxValidations == 2

\* decorator applications (methods decorated while the modules load)
MaxDecorated == 3

\* the dispatches the variables keep track of; Dispatches are those of Spec
Requests == {"d1", "d2"}

Dispatches == {"d1"}

RequestIds == {"req-1", "req-2"}

\* A parsed body is the set of the fields it carries.
Bodies == {{}, {"name"}, {"name", "age"}}

EventOrigins == {"https://app.example", "https://admin.example"}

\* optional arguments
None == [given |-> FALSE]
Some(v) == [given |-> TRUE, value |-> v]

Schemas ==
    { [id |-> "nameRule", field |-> "name", message |-> "name is required"],
      [id |-> "ageRule",  field |-> "age",  message |-> "age is required"],
      [id |-> "nameRule2", field |-> "name", message |-> "name is required"] }

RECURSIVE SeqsUpTo(_, _)
SeqsUpTo(S, n) ==
    IF n = 0 THEN {<<>>}
    ELSE LET shorter == SeqsUpTo(S, n - 1)
         IN  shorter \cup {Append(s, x) : s \in shorter, x \in S}

ValidationArgs ==
    {None} \cup {Some([i \in DOMAIN s |-> [schema |-> s[i]]]) : s \in SeqsUpTo(Schemas, MaxValidations)}

Events ==
    { [requestContext |-> [requestId |-> id], body |-> b, headers |-> [origin |-> o]] :
        id \in RequestIds, b \in Bodies, o \in EventOrigins }

ErrorMessages == {"boom", "timeout"}

-----------------------------------------------------------------------------
(* HTTPResponse (Model.ts): a status code, a body and a header mapping *)

XRequestId == "X-REQUEST-ID"
AllowOrigin == "Access-Control-Allow-Origin"
AllowCredentials == "Access-Control-Allow-Credentials"
AllowMethods == "Access-Control-Allow-Methods"
AllowHeaders == "Access-Control-Allow-Headers"

CorsHeaderNames == {AllowOrigin, AllowCredentials, AllowMethods, AllowHeaders}

NoHeaders == [h \in {} |-> ""]

DefaultStatusCode == 200

SetBody(body) == [statusCode |-> DefaultStatusCode, body |-> body, headers |-> NoHeaders]

SetStatusCode(response, code) == [response EXCEPT !.statusCode = code]

AddHeaders(response, headers) ==
    [response EXCEPT !.headers =
        [h \in DOMAIN headers \cup DOMAIN response.headers |->
            IF h \in DOMAIN headers THEN headers[h] ELSE response.headers[h]]]

AddHeader(response, name, value) == AddHeaders(response, name :> value)

\* Array.prototype.join
RECURSIVE Join(_, _)
Join(items, separator) ==
    IF Len(items) = 0 THEN ""
    ELSE IF Len(items) = 1 THEN items[1]
    ELSE items[1] \o separator \o Join(Tail(items), separator)

\* Object.keys of a header map, kept as its <<name, value>> entries in insertion order
ObjectKeys(map) == [i \in DOMAIN map |-> map[i][1]]

Undefined == [undefined |-> TRUE]

IsResponse(value) == "statusCode" \in DOMAIN value

\* What an undecorated handler may resolve to.
HandlerResponses ==
    { [statusCode |-> 200, body |-> [data |-> "ok"], headers |-> NoHeaders],
      [statusCode |-> 404, body |-> [data |-> "missing"],
       headers |-> ("Content-Type" :> "application/json" @@ XRequestId :> "stale")] }

HandlerValues == HandlerResponses \cup {Undefined}

-----------------------------------------------------------------------------
(* The validation capability, EndpointRouter.validationHandler.validate:   *)
(* the empty string when the body satisfies the schema, else a message     *)

Validate(body, schema) == IF schema.field \in body THEN "" ELSE schema.message

\* validationErrors.add(...) of one validation's result (Set.prototype.add)
AddValidationError(validationErrors, message) == validationErrors \cup {message}

\* validations.forEach(validation => validationErrors.add(validate(event.body, validation.schema)))
RECURSIVE ForEachValidation(_, _, _)
ForEachValidation(validations, event, validationErrors) ==
    IF Len(validations) = 0 THEN validationErrors
    ELSE ForEachValidation(
            Tail(validations), event,
            AddValidationError(validationErrors, Validate(event.body, Head(validations).schema)))

\* variant: only the first validation is handed to the validator
ValidatorCalls_FirstOnly(validations) ==
    [i \in DOMAIN validations \cap {1} |-> validations[i].schema.id]

\* the schemas the forEach hands to the validator, in call order
ValidatorCalls(validations) == [i \in DOMAIN validations |-> validations[i].schema.id]

-----------------------------------------------------------------------------
(* The responses the endpoint wrapper builds itself *)

ValidationFailureResponse(event, validationErrors) ==
    AddHeader(SetStatusCode(SetBody([message |-> validationErrors]), 400),
              XRequestId, event.requestContext.requestId)

\* variant: the failure is reported as 500
HandlerFailureResponse_500(event, error) ==
    AddHeader(SetStatusCode(SetBody([message |-> error.message]), 500),
              XRequestId, event.requestContext.requestId)

\* variant: the failure response is opened to every origin
HandlerFailureResponse_AnyOrigin(event, error) ==
    AddHeader(AddHeader(SetStatusCode(SetBody([message |-> error.message]), 501),
                        XRequestId, event.requestContext.requestId),
              AllowOrigin, "*")

HandlerFailureResponse(event, error) ==
    AddHeader(SetStatusCode(SetBody([message |-> error.message]), 501),
              XRequestId, event.requestContext.requestId)

\* variant: a header the handler set itself is kept
TagResponse_IfAbsent(event, response) ==
    IF XRequestId \in DOMAIN response.headers
    THEN response
    ELSE AddHeader(response, XRequestId, event.requestContext.requestId)

\* variant: the tagged response is also forced to 200
TagResponse_Status200(event, response) ==
    SetStatusCode(AddHeader(response, XRequestId, event.requestContext.requestId), 200)

\* response.addHeader('X-REQUEST-ID', event.requestContext.requestId); return response
TagResponse(event, response) ==
    AddHeader(response, XRequestId, event.requestContext.requestId)

-----------------------------------------------------------------------------
(* The cors decorator: cors(allowedOrigin, allowedActions?, allowedHeaders?, *)
(* allowCredentials = true)                                                  *)

\* An allowedOrigin is a string or a caller-supplied function of (event, response).
StaticOrigins == {[kind |-> "string", value |-> "https://static.example"]}

OriginFunctions ==
    { [kind |-> "function", name |-> "originByStatus"],
      [kind |-> "function", name |-> "originDenied"] }

\* originDenied throws; originByStatus returns a value.
OriginFunctionThrows(allowedOrigin) == allowedOrigin.name = "originDenied"

OriginFunctionError == [message |-> "origin denied"]

\* originByStatus = (event, response) =>
\*     response && response.statusCode === 200 ? event.headers.origin : 'null'
ApplyOriginFunction(allowedOrigin, event, response) ==
    IF IsResponse(response) /\ response.statusCode = 200
    THEN event.headers.origin
    ELSE "null"

NoCors == [cors |-> FALSE]

CorsConfigs ==
    { [cors |-> TRUE, allowedOrigin |-> o, allowedActions |-> a,
       allowedHeaders |-> h, allowCredentials |-> c] :
        o \in StaticOrigins \cup OriginFunctions,
        a \in {None, Some(<<>>), Some(<<"GET", "POST">>)},
        h \in {None, Some(<<>>),
               Some(<< <<"Content-Type", "application/json">>, <<"Authorization", "Bearer">> >>)},
        c \in {None, Some(TRUE), Some(FALSE)} }

Configs == {NoCors} \cup CorsConfigs

\* variant: the parameter defaults to false
AllowCredentialsParameter_DefaultFalse(cfg) ==
    IF cfg.allowCredentials.given THEN cfg.allowCredentials.value ELSE FALSE

\* the default value of the parameter: allowCredentials: boolean = true
AllowCredentialsParameter(cfg) ==
    IF cfg.allowCredentials.given THEN cfg.allowCredentials.value ELSE TRUE

\* typeof allowedOrigin === 'string' ? allowedOrigin : allowedOrigin(event, response)
CorsOrigin(cfg, event, response) ==
    IF cfg.allowedOrigin.kind = "string"
    THEN cfg.allowedOrigin.value
    ELSE ApplyOriginFunction(cfg.allowedOrigin, event, response)

\* response.addHeaders({'Access-Control-Allow-Origin': ..., 'Access-Control-Allow-Credentials': ...})
CorsBaseHeaders(cfg, origin) ==
    AllowOrigin :> origin @@
    AllowCredentials :> (IF AllowCredentialsParameter(cfg) THEN "true" ELSE "false")

\* if (allowedActions) response.addHeader('Access-Control-Allow-Methods', allowedActions.join(', '))
CorsAllowMethods(cfg, response) ==
    IF cfg.allowedActions.given
    THEN AddHeader(response, AllowMethods, Join(cfg.allowedActions.value, ", "))
    ELSE response

\* variant: the header values are joined instead of the header names
CorsAllowHeaders_Values(cfg, response) ==
    IF cfg.allowedHeaders.given
    THEN AddHeader(response, AllowHeaders,
                   Join([i \in DOMAIN cfg.allowedHeaders.value |-> cfg.allowedHeaders.value[i][2]], ", "))
    ELSE response

\* if (allowedHeaders) response.addHeader('Access-Control-Allow-Headers', Object.keys(allowedHeaders).join(', '))
CorsAllowHeaders(cfg, response) ==
    IF cfg.allowedHeaders.given
    THEN AddHeader(response, AllowHeaders, Join(ObjectKeys(cfg.allowedHeaders.value), ", "))
    ELSE response

\* the body of the .then callback once the origin is known
CorsResponse(cfg, origin, response) ==
    CorsAllowHeaders(cfg, CorsAllowMethods(cfg, AddHeaders(response, CorsBaseHeaders(cfg, origin))))

CallsOriginFunction(cfg) == cfg.cors /\ cfg.allowedOrigin.kind = "function"

-----------------------------------------------------------------------------
(* State of the promise chain of one dispatch *)

NoArgs == [given |-> FALSE]
NotSettled == [state |-> "none"]
Fulfilled(value) == [state |-> "fulfilled", value |-> value]
Rejected(error) == [state |-> "rejected", error |-> error]
NoResult == [kind |-> "none"]
Returned(response) == [kind |-> "response", response |-> response]
Thrown(error) == [kind |-> "thrown", error |-> error]

NotResolved == [found |-> FALSE]

\* variant: the wrapper keeps the event in a variable all its calls share,
\* so a callback sees the event of another call in flight
ClosureEvent_Shared(r) ==
    IF \E q \in Requests \ {r} : args[q].given
    THEN args[CHOOSE q \in Requests \ {r} : args[q].given].event
    ELSE args[r].event

\* const event: HTTPEvent = arguments[0], captured by the callbacks of that call
ClosureEvent(r) == args[r].event

\* variant: the register call sits inside the wrapper, so each call registers again
DispatchLeavesRegistry_Reregisters ==
    /\ endpointRouter' = endpointRouter \o SubSeq(endpointRouter, 1, 1)
    /\ registerCalls' = registerCalls + 1
    /\ UNCHANGED <<router, decorated>>

\* the wrapper and its callbacks (decorators.ts 45-61, 83-111) make no register call
DispatchLeavesRegistry == UNCHANGED <<endpointRouter, router, decorated, registerCalls>>

Init ==
    /\ pc = [r \in Requests |-> "idle"]
    /\ args = [r \in Requests |-> NoArgs]
    /\ config = [r \in Requests |-> NoCors]
    /\ settled = [r \in Requests |-> NotSettled]
    /\ result = [r \in Requests |-> NoResult]
    /\ handlerResult = [r \in Requests |-> [outcome |-> "notCalled"]]
    /\ handlerCalls = [r \in Requests |-> 0]
    /\ validateCalls = [r \in Requests |-> <<>>]
    /\ originCalls = [r \in Requests |-> 0]
    /\ resolved = [r \in Requests |-> NotResolved]
    /\ endpointRouter = <<>>
    /\ router = <<>>
    /\ decorated = <<>>
    /\ registerCalls = 0

\* variant: the test reads validationErrors, which as an object is always truthy
ValidationRejects_Truthy(event, validations) ==
    validations.given

\* variant: the test reads validationErrors.length, which a Set does not have
ValidationRejects_Length(event, validations) ==
    /\ validations.given
    /\ FALSE

\* if (validations) { ... if (validationErrors.size) return 400 }
ValidationRejects(event, validations) ==
    /\ validations.given
    /\ Cardinality(ForEachValidation(validations.value, event, {})) # 0

(* The synchronous part of the endpoint wrapper (decorators.ts 83-101): the *)
(* validations, then either the 400 response or the call of targetMethod.   *)
(* targetMethod is the handler, or the cors wrapper around it, which calls  *)
(* the handler at once (decorators.ts 45-48).  The handler either throws at *)
(* call time, which nothing here catches, or returns a pending promise.     *)
EndpointCall(r, event, validations, cfg, throws, error) ==
    /\ pc[r] = "idle"
    /\ args' = [args EXCEPT ![r] = [given |-> TRUE, event |-> event, validations |-> validations]]
    /\ config' = [config EXCEPT ![r] = cfg]
    /\ validateCalls' = [validateCalls EXCEPT ![r] =
            IF validations.given THEN ValidatorCalls(validations.value) ELSE <<>>]
    /\ IF ValidationRejects(event, validations)
       THEN /\ result' = [result EXCEPT ![r] = Returned(
                    ValidationFailureResponse(event, ForEachValidation(validations.value, event, {})))]
            /\ pc' = [pc EXCEPT ![r] = "done"]
            /\ UNCHANGED <<handlerCalls, handlerResult>>
       ELSE /\ handlerCalls' = [handlerCalls EXCEPT ![r] = @ + 1]
            /\ IF throws
               THEN /\ result' = [result EXCEPT ![r] = Thrown(error)]
                    /\ handlerResult' = [handlerResult EXCEPT ![r] = [outcome |-> "threw", error |-> error]]
                    /\ pc' = [pc EXCEPT ![r] = "thrown"]
               ELSE /\ handlerResult' = [handlerResult EXCEPT ![r] = [outcome |-> "pending"]]
                    /\ pc' = [pc EXCEPT ![r] = "pending"]
                    /\ UNCHANGED result
    /\ UNCHANGED <<settled, originCalls>>
    /\ DispatchLeavesRegistry

Dispatch(r) ==
    /\ pc[r] = "idle"
    /\ \E event \in Events, validations \in ValidationArgs, cfg \in Configs,
          throws \in BOOLEAN, m \in ErrorMessages :
            EndpointCall(r, event, validations, cfg, throws, [message |-> m])
    /\ UNCHANGED resolved

(* The handler's promise settles: user code, any time after the call. *)
HandlerFulfils(r, value) ==
    /\ pc[r] = "pending"
    /\ settled' = [settled EXCEPT ![r] = Fulfilled(value)]
    /\ handlerResult' = [handlerResult EXCEPT ![r] = [outcome |-> "fulfilled", value |-> value]]
    /\ pc' = [pc EXCEPT ![r] = IF config[r].cors THEN "corsThen" ELSE "endpointThen"]
    /\ UNCHANGED <<args, config, result, handlerCalls, validateCalls, originCalls, resolved>>
    /\ DispatchLeavesRegistry

(* A rejection skips every .then callback (none has an onRejected) and     *)
(* reaches the endpoint wrapper's .catch.                                  *)
HandlerRejects(r, error) ==
    /\ pc[r] = "pending"
    /\ settled' = [settled EXCEPT ![r] = Rejected(error)]
    /\ handlerResult' = [handlerResult EXCEPT ![r] = [outcome |-> "rejected", error |-> error]]
    /\ pc' = [pc EXCEPT ![r] = "endpointCatch"]
    /\ UNCHANGED <<args, config, result, handlerCalls, validateCalls, originCalls, resolved>>
    /\ DispatchLeavesRegistry

\* variant: the callback hands the response on without the headers
CorsThenCallback_PassThrough(cfg, event, response) ==
    IF ~IsResponse(response)
    THEN Rejected([message |-> "Cannot read property 'addHeaders' of undefined"])
    ELSE Fulfilled(response)

\* the cors wrapper's .then callback (decorators.ts 48-60): the promise it settles
CorsThenCallback(cfg, event, response) ==
    IF CallsOriginFunction(cfg) /\ OriginFunctionThrows(cfg.allowedOrigin)
    THEN Rejected(OriginFunctionError)
    ELSE IF ~IsResponse(response)
    THEN Rejected([message |-> "Cannot read property 'addHeaders' of undefined"])
    ELSE Fulfilled(CorsResponse(cfg, CorsOrigin(cfg, event, response), response))

CorsThen(r) ==
    /\ pc[r] = "corsThen"
    /\ LET out == CorsThenCallback(config[r], ClosureEvent(r), settled[r].value)
       IN  /\ settled' = [settled EXCEPT ![r] = out]
           /\ pc' = [pc EXCEPT ![r] =
                    IF out.state = "fulfilled" THEN "endpointThen" ELSE "endpointCatch"]
    /\ originCalls' = [originCalls EXCEPT ![r] =
            IF CallsOriginFunction(config[r]) THEN @ + 1 ELSE @]
    /\ UNCHANGED <<args, config, result, handlerResult, handlerCalls, validateCalls, resolved>>
    /\ DispatchLeavesRegistry

\* variant: a failure of addHeader is reported with a fixed message
EndpointThenCallback_Generic(event, response) ==
    IF ~IsResponse(response)
    THEN Rejected([message |-> "Internal Server Error"])
    ELSE Fulfilled(TagResponse(event, response))

\* the endpoint wrapper's .then callback (decorators.ts 102-105)
EndpointThenCallback(event, response) ==
    IF ~IsResponse(response)
    THEN Rejected([message |-> "Cannot read property 'addHeader' of undefined"])
    ELSE Fulfilled(TagResponse(event, response))

EndpointThen(r) ==
    /\ pc[r] = "endpointThen"
    /\ LET out == EndpointThenCallback(ClosureEvent(r), settled[r].value)
       IN  /\ settled' = [settled EXCEPT ![r] = out]
           /\ IF out.state = "fulfilled"
              THEN /\ result' = [result EXCEPT ![r] = Returned(out.value)]
                   /\ pc' = [pc EXCEPT ![r] = "done"]
              ELSE /\ pc' = [pc EXCEPT ![r] = "endpointCatch"]
                   /\ UNCHANGED result
    /\ UNCHANGED <<args, config, handlerResult, handlerCalls, validateCalls, originCalls, resolved>>
    /\ DispatchLeavesRegistry

\* variant: the .catch callback calls the handler once more
EndpointCatch_Retries(r) ==
    /\ pc[r] = "endpointCatch"
    /\ handlerCalls' = [handlerCalls EXCEPT ![r] = @ + 1]
    /\ handlerResult' = [handlerResult EXCEPT ![r] = [outcome |-> "pending"]]
    /\ settled' = [settled EXCEPT ![r] = NotSettled]
    /\ pc' = [pc EXCEPT ![r] = "pending"]
    /\ UNCHANGED <<args, config, result, validateCalls, originCalls, resolved>>
    /\ DispatchLeavesRegistry

\* variant: the .catch callback throws the error again
EndpointCatch_Rethrows(r) ==
    /\ pc[r] = "endpointCatch"
    /\ result' = [result EXCEPT ![r] = Thrown(settled[r].error)]
    /\ pc' = [pc EXCEPT ![r] = "thrown"]
    /\ UNCHANGED <<args, config, settled, handlerResult, handlerCalls, validateCalls,
                   originCalls, resolved>>
    /\ DispatchLeavesRegistry

\* the endpoint wrapper's .catch callback (decorators.ts 106-110)
EndpointCatch(r) ==
    /\ pc[r] = "endpointCatch"
    /\ LET response == HandlerFailureResponse(ClosureEvent(r), settled[r].error)
       IN  /\ settled' = [settled EXCEPT ![r] = Fulfilled(response)]
           /\ result' = [result EXCEPT ![r] = Returned(response)]
    /\ pc' = [pc EXCEPT ![r] = "done"]
    /\ UNCHANGED <<args, config, handlerResult, handlerCalls, validateCalls, originCalls, resolved>>
    /\ DispatchLeavesRegistry

Settle(r) ==
    /\ pc[r] = "pending"
    /\ \/ \E value \in HandlerValues : HandlerFulfils(r, value)
       \/ \E m \in ErrorMessages : HandlerRejects(r, [message |-> m])

Next ==
    \/ \E r \in Dispatches : Dispatch(r)
    \/ \E r \in Dispatches : Settle(r)
    \/ \E r \in Dispatches : CorsThen(r)
    \/ \E r \in Dispatches : EndpointThen(r)
    \/ \E r \in Dispatches : EndpointCatch(r)

Spec == Init /\ [][Next]_vars

(* Spec with the scheduling of the callbacks: a callback whose promise has *)
(* settled is run by the microtask queue.  Nothing obliges a handler to    *)
(* settle, or a request to arrive.                                         *)
SpecFair ==
    /\ Spec
    /\ \A r \in Dispatches :
          /\ WF_vars(CorsThen(r))
          /\ WF_vars(EndpointThen(r))
          /\ WF_vars(EndpointCatch(r))

-----------------------------------------------------------------------------
(* Registration: the endpoint decorator (decorators.ts 113-117) and the     *)
(* xdelete decorator (endpoints/decorators/xdelete.ts 10-25).  A path is    *)
(* kept as its segments between the '/'; a segment is a literal or a        *)
(* {name} placeholder.                                                      *)

Lit(text) == [lit |-> text]
Param(name) == [param |-> name]

\* String.prototype.toUpperCase on the action strings in use
ToUpperCase(text) ==
    CASE text = "get" -> "GET"
      [] text = "Get" -> "GET"
      [] text = "post" -> "POST"
      [] OTHER -> text

\* HttpAction.DELETE
HttpActionDelete == "DELETE"

UsersId == <<Lit("users"), Param("id")>>
UsersActive == <<Lit("users"), Lit("active")>>

SampleCors ==
    [cors |-> TRUE, allowedOrigin |-> [kind |-> "function", name |-> "originByStatus"],
     allowedActions |-> Some(<<"GET", "POST">>), allowedHeaders |-> None,
     allowCredentials |-> Some(FALSE)]

\* The methods that carry @endpoint(path, action, condition?, priority?), some with @cors below it
EndpointMethods ==
    { [name |-> "getUser", path |-> UsersId, action |-> "get",
       condition |-> None, priority |-> Some(1), cfg |-> NoCors],
      [name |-> "getActive", path |-> UsersActive, action |-> "GET",
       condition |-> None, priority |-> Some(5), cfg |-> SampleCors],
      [name |-> "getNamed", path |-> UsersId, action |-> "Get",
       condition |-> Some("hasName"), priority |-> Some(5), cfg |-> NoCors],
      [name |-> "getAged", path |-> UsersId, action |-> "get",
       condition |-> Some("hasAge"), priority |-> Some(5), cfg |-> SampleCors],
      [name |-> "createUser", path |-> UsersId, action |-> "post",
       condition |-> Some("hasName"), priority |-> None, cfg |-> NoCors] }

\* The methods that carry @xdelete(path); two of them declare the same path
XdeleteMethods ==
    { [name |-> "deleteUser", path |-> UsersId, clazz |-> "UserController"],
      [name |-> "purgeUser", path |-> UsersId, clazz |-> "AdminController"] }

\* the arguments of EndpointRouter.register(path, routeAction.toUpperCase(),
\* descriptor.value, descriptor, condition, priority)
EndpointRoute(method) ==
    [path |-> method.path,
     action |-> ToUpperCase(ToUpperCase(method.action)),
     handler |-> method.name,
     cfg |-> method.cfg,
     condition |-> method.condition,
     priority |-> method.priority]

\* the argument of Router.register({path, clazz, action, functionName, function})
XdeleteRoute(method) ==
    [path |-> method.path,
     clazz |-> method.clazz,
     action |-> HttpActionDelete,
     functionName |-> method.name,
     handler |-> method.name]

\* variant: the registry is a map keyed by path and action, a later route
\* replaces the earlier one with the same key
Register_Keyed(routes, route) ==
    IF \E i \in DOMAIN routes : routes[i].path = route.path /\ routes[i].action = route.action
    THEN [i \in DOMAIN routes |->
            IF routes[i].path = route.path /\ routes[i].action = route.action
            THEN route ELSE routes[i]]
    ELSE Append(routes, route)

\* register(route): appends, never overwrites, never deduplicates
Register(routes, route) == Append(routes, route)

IsDecorated(name) == \E i \in DOMAIN decorated : decorated[i].method = name

\* the endpoint decorator applied to one method
ApplyEndpoint(method) ==
    /\ Len(decorated) < MaxDecorated
    /\ ~IsDecorated(method.name)
    /\ endpointRouter' = Register(endpointRouter, EndpointRoute(method))
    /\ registerCalls' = registerCalls + 1
    /\ decorated' = Append(decorated, [decorator |-> "endpoint", method |-> method.name])
    /\ UNCHANGED <<pc, args, config, settled, result, handlerResult, handlerCalls,
                   validateCalls, originCalls, resolved, router>>

\* the xdelete decorator applied to one method
ApplyXdelete(method) ==
    /\ Len(decorated) < MaxDecorated
    /\ ~IsDecorated(method.name)
    /\ router' = Register(router, XdeleteRoute(method))
    /\ registerCalls' = registerCalls + 1
    /\ decorated' = Append(decorated, [decorator |-> "xdelete", method |-> method.name])
    /\ UNCHANGED <<pc, args, config, settled, result, handlerResult, handlerCalls,
                   validateCalls, originCalls, resolved, endpointRouter>>

-----------------------------------------------------------------------------
(* Resolution of a request by the registry: path matcher and route choice *)

NoMatch == [matched |-> FALSE]

\* match(pattern, path): equal segment counts, a placeholder captures one
\* non-empty segment, any other segment matches literally
Match(pattern, path) ==
    IF /\ Len(pattern) = Len(path)
       /\ \A i \in DOMAIN pattern :
            IF "param" \in DOMAIN pattern[i] THEN path[i] # "" ELSE pattern[i].lit = path[i]
    THEN [matched |-> TRUE,
          params |-> {<<pattern[i].param, path[i]>> :
                        i \in {j \in DOMAIN pattern : "param" \in DOMAIN pattern[j]}}]
    ELSE NoMatch

\* the conditions in use, predicates of (body, event)
ApplyCondition(name, body, event) ==
    CASE name = "hasName" -> "name" \in body
      [] name = "hasAge" -> "age" \in body
      [] OTHER -> FALSE

\* a route without a priority ranks as priority 0
PriorityOf(route) == IF route.priority.given THEN route.priority.value ELSE 0

\* steps 1-3 of resolve: action, path, condition
IsCandidate(route, path, action, body, event) ==
    /\ route.action = action
    /\ Match(route.path, path).matched
    /\ route.condition.given => ApplyCondition(route.condition.value, body, event)

\* variant: a later route of equal priority replaces the one found first
Better_LastWins(routes, i, best) ==
    best = 0 \/ PriorityOf(routes[i]) >= PriorityOf(routes[best])

\* step 5 of resolve: a route replaces the best so far only with a higher priority
Better(routes, i, best) ==
    best = 0 \/ PriorityOf(routes[i]) > PriorityOf(routes[best])

\* one pass over the routes in registration order, keeping the best candidate
RECURSIVE Scan(_, _, _, _, _, _, _)
Scan(routes, i, best, path, action, body, event) ==
    IF i > Len(routes) THEN best
    ELSE Scan(routes, i + 1,
              IF IsCandidate(routes[i], path, action, body, event) /\ Better(routes, i, best)
              THEN i ELSE best,
              path, action, body, event)

\* resolve(path, action, body, event): the chosen route and its path parameters
Resolve(routes, path, action, body, event) ==
    LET chosen == Scan(routes, 1, 0, path, action, body, event)
    IN  IF chosen = 0
        THEN [found |-> FALSE, path |-> path, action |-> action, size |-> Len(routes)]
        ELSE [found |-> TRUE, index |-> chosen, path |-> path, action |-> action,
              size |-> Len(routes),
              pathParams |-> Match(routes[chosen].path, path).params]

RequestPaths == {<<"users", "42">>, <<"users", "active">>, <<"users">>, <<"users", "">>}
RequestActions == {"GET", "POST"}

RegistryEvents ==
    { [requestContext |-> [requestId |-> "req-1"], body |-> b,
       headers |-> [origin |-> "https://app.example"]] : b \in Bodies }

RegistryValidations == {None, Some(<<[schema |-> CHOOSE x \in Schemas : x.id = "nameRule"]>>)}

(* One request served: the registry resolves it and the wrapper registered *)
(* for the chosen route is called; no route gives the not-found outcome.   *)
Serve(r) ==
    /\ pc[r] = "idle"
    /\ \E path \in RequestPaths, action \in RequestActions, event \in RegistryEvents :
        LET m == Resolve(endpointRouter, path, action, event.body, event)
        IN  /\ resolved' = [resolved EXCEPT ![r] = m]
            /\ IF m.found
               THEN \E validations \in RegistryValidations, throws \in BOOLEAN :
                        EndpointCall(r, event, validations, endpointRouter[m.index].cfg,
                                     throws, [message |-> "boom"])
               ELSE /\ pc' = [pc EXCEPT ![r] = "notFound"]
                    /\ UNCHANGED <<args, config, settled, result, handlerResult,
                                   handlerCalls, validateCalls, originCalls>>
                    /\ DispatchLeavesRegistry

RegistrySettle(r) ==
    /\ pc[r] = "pending"
    /\ \/ HandlerFulfils(r, [statusCode |-> 200, body |-> [data |-> "ok"], headers |-> NoHeaders])
       \/ HandlerRejects(r, [message |-> "boom"])

\* the request and its response are discarded once the dispatch is over
Discard(r) ==
    /\ pc[r] \in {"done", "thrown", "notFound"}
    /\ pc' = [pc EXCEPT ![r] = "idle"]
    /\ args' = [args EXCEPT ![r] = NoArgs]
    /\ config' = [config EXCEPT ![r] = NoCors]
    /\ settled' = [settled EXCEPT ![r] = NotSettled]
    /\ result' = [result EXCEPT ![r] = NoResult]
    /\ handlerResult' = [handlerResult EXCEPT ![r] = [outcome |-> "notCalled"]]
    /\ handlerCalls' = [handlerCalls EXCEPT ![r] = 0]
    /\ validateCalls' = [validateCalls EXCEPT ![r] = <<>>]
    /\ originCalls' = [originCalls EXCEPT ![r] = 0]
    /\ resolved' = [resolved EXCEPT ![r] = NotResolved]
    /\ DispatchLeavesRegistry

NextRegistry ==
    \/ \E method \in EndpointMethods : ApplyEndpoint(method)
    \/ \E method \in XdeleteMethods : ApplyXdelete(method)
    \/ \E r \in Dispatches : Serve(r)
    \/ \E r \in Dispatches : RegistrySettle(r)
    \/ \E r \in Dispatches : CorsThen(r)
    \/ \E r \in Dispatches : EndpointThen(r)
    \/ \E r \in Dispatches : EndpointCatch(r)
    \/ \E r \in Dispatches : Discard(r)

SpecRegistry == Init /\ [][NextRegistry]_vars

-----------------------------------------------------------------------------
(* Several calls of a wrapper in flight together: each call runs its       *)
(* synchronous part in one step, the handlers settle in any order and the   *)
(* callbacks of the calls interleave.                                       *)

ConcurrentEvents ==
    { [requestContext |-> [requestId |-> id], body |-> b,
       headers |-> [origin |-> "https://app.example"]] :
        id \in RequestIds, b \in {{}, {"name", "age"}} }

ConcurrentValidations == {None, Some(<<[schema |-> CHOOSE x \in Schemas : x.id = "nameRule"]>>)}

ConcurrentConfigs == {NoCors, SampleCors}

ConcurrentDispatch(r) ==
    /\ pc[r] = "idle"
    /\ \E event \in ConcurrentEvents, validations \in ConcurrentValidations,
          cfg \in ConcurrentConfigs :
            EndpointCall(r, event, validations, cfg, FALSE, [message |-> "boom"])
    /\ UNCHANGED resolved

NextConcurrent ==
    \/ \E r \in Requests : ConcurrentDispatch(r)
    \/ \E r \in Requests : Settle(r)
    \/ \E r \in Requests : CorsThen(r)
    \/ \E r \in Requests : EndpointThen(r)
    \/ \E r \in Requests : EndpointCatch(r)

SpecConcurrent == Init /\ [][NextConcurrent]_vars

-----------------------------------------------------------------------------
(* Vocabulary of the properties *)

Dispatched(r) == args[r].given
Event(r) == args[r].event
RequestId(r) == args[r].event.requestContext.requestId
HasResponse(r) == result[r].kind = "response"
Response(r) == result[r].response

\* the messages the validators return for this dispatch, one per validation
ValidatorMessages(r) ==
    IF args[r].validations.given
    THEN {Validate(Event(r).body, args[r].validations.value[i].schema) :
            i \in DOMAIN args[r].validations.value}
    ELSE {}

HasValidations(r) == args[r].validations.given /\ Len(args[r].validations.value) > 0

\* the wrapper returned before calling the handler
ReturnedBeforeHandler(r) == HasResponse(r) /\ handlerCalls[r] = 0

CarriesRequestId(r) ==
    /\ XRequestId \in DOMAIN Response(r).headers
    /\ Response(r).headers[XRequestId] = RequestId(r)

\* C1: every response a dispatch produces, on the 400, the success and the
\* 501 path alike, carries X-REQUEST-ID equal to the requestId of its event.
C1_RequestIdOnEveryResponse ==
    \A r \in Dispatches : HasResponse(r) => CarriesRequestId(r)

\* the handler's own response already carried another X-REQUEST-ID
C1_Witness ==
    \E r \in Dispatches :
        /\ HasResponse(r)
        /\ handlerResult[r].outcome = "fulfilled"
        /\ IsResponse(handlerResult[r].value)
        /\ XRequestId \in DOMAIN handlerResult[r].value.headers
        /\ handlerResult[r].value.headers[XRequestId] # RequestId(r)
        /\ Response(r).statusCode = 404

\* C2: when some validator returns a non-empty message, the dispatch returns
\* status 400 with body { message: <the set of messages> } holding every
\* non-empty message returned, and the handler is not called.
C2_ValidationFailureReturns400 ==
    \A r \in Dispatches :
        (Dispatched(r) /\ ValidatorMessages(r) \ {""} # {}) =>
            /\ HasResponse(r)
            /\ Response(r).statusCode = 400
            /\ DOMAIN Response(r).body = {"message"}
            /\ ValidatorMessages(r) \ {""} \subseteq Response(r).body.message
            /\ Response(r).body.message \subseteq ValidatorMessages(r)
            /\ handlerCalls[r] = 0
            /\ handlerResult[r].outcome = "notCalled"

\* two validators fail with distinct messages
C2_Witness ==
    \E r \in Dispatches :
        /\ Dispatched(r)
        /\ Cardinality(ValidatorMessages(r) \ {""}) = 2
        /\ HasResponse(r)
        /\ Response(r).statusCode = 400

\* C3: when a non-empty sequence of validations is supplied and every
\* validator returns the empty string, no 400 response is produced and the
\* handler is invoked.
C3_PassingValidationsInvokeHandler ==
    \A r \in Dispatches :
        (Dispatched(r) /\ HasValidations(r) /\ ValidatorMessages(r) = {""}) =>
            /\ ~ReturnedBeforeHandler(r)
            /\ handlerCalls[r] = 1

\* C4: when the handler's promise rejects with an error of message m, the
\* dispatch does not reject: it resolves to status 501, body { message: m },
\* with X-REQUEST-ID equal to the request's id.
C4_RejectionBecomes501 ==
    \A r \in Dispatches :
        handlerResult[r].outcome = "rejected" =>
            /\ pc[r] \in {"endpointCatch", "done"}
            /\ result[r].kind # "thrown"
            /\ pc[r] = "done" =>
                /\ HasResponse(r)
                /\ Response(r).statusCode = 501
                /\ Response(r).body = [message |-> handlerResult[r].error.message]
                /\ CarriesRequestId(r)

C4_Witness ==
    \E r \in Dispatches :
        /\ handlerResult[r].outcome = "rejected"
        /\ handlerResult[r].error.message = "boom"
        /\ pc[r] = "done"
        /\ Response(r).statusCode = 501

\* C5: a handler failure never leaves the dispatch: whether the handler
\* throws at call time or its promise rejects, the wrapper neither throws nor
\* rejects, and once the dispatch is over its outcome is a 501 response.
C5_HandlerFailureNeverPropagates ==
    \A r \in Dispatches :
        handlerResult[r].outcome \in {"threw", "rejected"} =>
            /\ result[r].kind # "thrown"
            /\ pc[r] \in {"endpointCatch", "done"}
            /\ pc[r] = "done" => (HasResponse(r) /\ Response(r).statusCode = 501)

\* the target of the endpoint wrapper resolved to a response: the handler
\* did, and the cors callback around it (if any) did not fail
OriginFunctionFails(r) ==
    CallsOriginFunction(config[r]) /\ OriginFunctionThrows(config[r].allowedOrigin)

HandlerSucceeded(r) ==
    /\ handlerResult[r].outcome = "fulfilled"
    /\ IsResponse(handlerResult[r].value)

TargetSucceeded(r) == HandlerSucceeded(r) /\ ~OriginFunctionFails(r)

HandlerResponse(r) == handlerResult[r].value

\* C6: when the handler completes with a response, the dispatch returns that
\* response with statusCode and body unchanged; the normalizer changes nothing
\* but the X-REQUEST-ID header (any other new header is one of the cors
\* wrapper's Access-Control-* headers).
C6_SuccessKeepsStatusAndBody ==
    \A r \in Dispatches :
        (pc[r] = "done" /\ TargetSucceeded(r)) =>
            /\ HasResponse(r)
            /\ Response(r).statusCode = HandlerResponse(r).statusCode
            /\ Response(r).body = HandlerResponse(r).body
            /\ DOMAIN Response(r).headers =
                   DOMAIN HandlerResponse(r).headers \cup {XRequestId}
                   \cup (IF config[r].cors
                         THEN DOMAIN Response(r).headers \cap CorsHeaderNames
                         ELSE {})
            /\ \A h \in DOMAIN HandlerResponse(r).headers \ {XRequestId} :
                   Response(r).headers[h] = HandlerResponse(r).headers[h]

C6_Witness ==
    \E r \in Dispatches :
        /\ pc[r] = "done"
        /\ TargetSucceeded(r)
        /\ ~config[r].cors
        /\ HandlerResponse(r).statusCode = 404
        /\ Response(r).statusCode = 404
        /\ Response(r).headers["Content-Type"] = "application/json"

\* C7: the message set of the 400 response is exactly the set of distinct
\* non-empty messages the validators returned; the empty result of a passing
\* validator is never a member.
C7_MessageSetIsNonEmptyMessages ==
    \A r \in Dispatches :
        ReturnedBeforeHandler(r) =>
            /\ Response(r).body.message = ValidatorMessages(r) \ {""}
            /\ "" \notin Response(r).body.message

\* the cors callback has produced its response: it is the value the chain
\* carries from then on, before and after the endpoint wrapper tags it
CorsProduced(r) ==
    /\ config[r].cors
    /\ TargetSucceeded(r)
    /\ pc[r] \in {"endpointThen", "done"}

CorsOutput(r) == settled[r].value

\* C8: on every response the cors wrapper produces, Access-Control-Allow-Origin
\* is the static origin string, or the result of the origin function applied to
\* (event, the handler's response), and Access-Control-Allow-Credentials is
\* "true" when allowCredentials is true or omitted and "false" when it is false.
C8_OriginAndCredentials ==
    \A r \in Dispatches :
        CorsProduced(r) =>
            /\ AllowOrigin \in DOMAIN CorsOutput(r).headers
            /\ CorsOutput(r).headers[AllowOrigin] =
                   IF config[r].allowedOrigin.kind = "string"
                   THEN config[r].allowedOrigin.value
                   ELSE ApplyOriginFunction(config[r].allowedOrigin, Event(r), HandlerResponse(r))
            /\ AllowCredentials \in DOMAIN CorsOutput(r).headers
            /\ CorsOutput(r).headers[AllowCredentials] =
                   IF config[r].allowCredentials = Some(FALSE) THEN "false" ELSE "true"
            /\ originCalls[r] = IF config[r].allowedOrigin.kind = "string" THEN 0 ELSE 1

\* allowCredentials omitted, origin computed by the function from the event
C8_Witness ==
    \E r \in Dispatches :
        /\ CorsProduced(r)
        /\ pc[r] = "done"
        /\ config[r].allowedOrigin.kind = "function"
        /\ ~config[r].allowCredentials.given
        /\ Response(r).headers[AllowOrigin] = "https://admin.example"
        /\ Response(r).headers[AllowCredentials] = "true"

\* C9: the cors wrapper adds Access-Control-Allow-Methods, the allowed actions
\* joined in configured order, iff an allowed-actions list was configured, and
\* Access-Control-Allow-Headers, the header names of the map joined, iff an
\* allowed-headers map was configured; with neither, the only Access-Control-*
\* headers are Allow-Origin and Allow-Credentials.
C9_MethodsAndHeadersIffConfigured ==
    \A r \in Dispatches :
        CorsProduced(r) =>
            LET headers == CorsOutput(r).headers
                actions == config[r].allowedActions
                allowed == config[r].allowedHeaders
            IN  /\ (AllowMethods \in DOMAIN headers) <=> actions.given
                /\ (AllowHeaders \in DOMAIN headers) <=> allowed.given
                /\ (actions.given /\ actions.value = <<"GET", "POST">>) =>
                       headers[AllowMethods] = "GET, POST"
                /\ (actions.given /\ actions.value = <<>>) => headers[AllowMethods] = ""
                /\ (allowed.given /\ Len(allowed.value) = 2) =>
                       headers[AllowHeaders] = "Content-Type, Authorization"
                /\ (allowed.given /\ Len(allowed.value) = 0) => headers[AllowHeaders] = ""
                /\ (~actions.given /\ ~allowed.given) =>
                       DOMAIN headers \cap CorsHeaderNames = {AllowOrigin, AllowCredentials}

\* actions configured, headers not
C9_Witness ==
    \E r \in Dispatches :
        /\ CorsProduced(r)
        /\ pc[r] = "done"
        /\ config[r].allowedActions = Some(<<"GET", "POST">>)
        /\ ~config[r].allowedHeaders.given
        /\ Response(r).headers[AllowMethods] = "GET, POST"
        /\ AllowHeaders \notin DOMAIN Response(r).headers

\* C10: with the endpoint wrapper around the cors wrapper, the final response
\* carries Access-Control-* headers only if the handler fulfilled: the 400
\* validation response and the 501 response to a handler failure carry none,
\* and the origin function is not called on those paths.
C10_NoCorsOnFailurePaths ==
    \A r \in Dispatches :
        /\ (HasResponse(r) /\ DOMAIN Response(r).headers \cap CorsHeaderNames # {}) =>
               (config[r].cors /\ TargetSucceeded(r))
        /\ (HasResponse(r) /\ (ReturnedBeforeHandler(r) \/ handlerResult[r].outcome = "rejected")) =>
               /\ Response(r).statusCode \in {400, 501}
               /\ DOMAIN Response(r).headers \cap CorsHeaderNames = {}
        /\ handlerResult[r].outcome # "fulfilled" => originCalls[r] = 0

\* a cors-decorated handler with an origin function rejects
C10_Witness ==
    \E r \in Dispatches :
        /\ HasResponse(r)
        /\ CallsOriginFunction(config[r])
        /\ handlerResult[r].outcome = "rejected"
        /\ Response(r).statusCode = 501
        /\ originCalls[r] = 0

-----------------------------------------------------------------------------
(* Properties of registration and resolution *)

RegistryUnchanged ==
    /\ endpointRouter' = endpointRouter
    /\ router' = router
    /\ registerCalls' = registerCalls

\* C11: request handling never mutates the registry: every step of a dispatch
\* (the call of a registered wrapper, the settling of its handler, each
\* callback, on the 400, success and 501 paths, and the discarding of the
\* request) makes no register call and leaves the routes and their order as
\* they are; the routes change only in a step that applies a decorator.
C11_DispatchNeverRegisters ==
    [][ /\ (pc' # pc) => RegistryUnchanged
        /\ ~RegistryUnchanged => Len(decorated') = Len(decorated) + 1 ]_vars

\* a registered wrapper has run to its 501 response with two routes registered
C11_Witness ==
    \E r \in Dispatches :
        /\ pc[r] = "done"
        /\ resolved[r].found
        /\ HasResponse(r)
        /\ Response(r).statusCode = 501
        /\ Len(endpointRouter) >= 2
        /\ registerCalls = Len(decorated)

DecoratedBy(decorator) ==
    LET Picked(d) == d.decorator = decorator
    IN  [i \in DOMAIN SelectSeq(decorated, Picked) |-> SelectSeq(decorated, Picked)[i].method]

HandlersOf(routes) == [i \in DOMAIN routes |-> routes[i].handler]

\* C12: each application of endpoint or xdelete makes exactly one register
\* call, which appends one route; a route with the path and action of an
\* earlier one neither replaces nor removes it: after n applications the
\* registries hold n routes, each registry in the order of its applications.
C12_OneRoutePerDecorator ==
    /\ registerCalls = Len(decorated)
    /\ Len(endpointRouter) + Len(router) = Len(decorated)
    /\ HandlersOf(endpointRouter) = DecoratedBy("endpoint")
    /\ HandlersOf(router) = DecoratedBy("xdelete")
    /\ \A i \in DOMAIN endpointRouter :
          \E method \in EndpointMethods :
              method.name = endpointRouter[i].handler /\ endpointRouter[i] = EndpointRoute(method)
    /\ \A i \in DOMAIN router :
          \E method \in XdeleteMethods :
              method.name = router[i].handler /\ router[i] = XdeleteRoute(method)

\* two endpoint routes with equal path and action coexist, beside an xdelete route
C12_Witness ==
    /\ Len(decorated) = 3
    /\ \E i, j \in DOMAIN endpointRouter :
          /\ i < j
          /\ endpointRouter[i].path = endpointRouter[j].path
          /\ endpointRouter[i].action = endpointRouter[j].action
    /\ Len(router) = 1

\* the routes that were candidates when the request of r was resolved
CandidatesOf(r) ==
    {j \in 1..resolved[r].size :
        IsCandidate(endpointRouter[j], resolved[r].path, resolved[r].action,
                    Event(r).body, Event(r))}

\* C13: among the routes that match the path and action of a request and pass
\* their conditions, resolve selects one of highest priority, and among those
\* of that priority the one registered first.
C13_HighestPriorityThenFirst ==
    \A r \in Dispatches :
        (resolved[r].found /\ Dispatched(r)) =>
            /\ resolved[r].index \in CandidatesOf(r)
            /\ \A j \in CandidatesOf(r) :
                  /\ PriorityOf(endpointRouter[j]) <= PriorityOf(endpointRouter[resolved[r].index])
                  /\ PriorityOf(endpointRouter[j]) = PriorityOf(endpointRouter[resolved[r].index])
                        => resolved[r].index <= j

\* three candidates: two of the highest priority and one of a lower priority
C13_Witness ==
    \E r \in Dispatches :
        /\ resolved[r].found
        /\ Dispatched(r)
        /\ Cardinality(CandidatesOf(r)) = 3
        /\ \E j \in CandidatesOf(r) :
              /\ j > resolved[r].index
              /\ PriorityOf(endpointRouter[j]) = PriorityOf(endpointRouter[resolved[r].index])
        /\ \E j \in CandidatesOf(r) :
              /\ j < resolved[r].index
              /\ PriorityOf(endpointRouter[j]) < PriorityOf(endpointRouter[resolved[r].index])

-----------------------------------------------------------------------------
(* Properties of the order and number of the steps of a dispatch *)

\* C14: validation never short-circuits: each supplied validation is handed
\* to the validator exactly once, in order, also after one that failed, and
\* all of them have been by the time the 400 is returned or the handler called.
C14_EveryValidationRunsOnce ==
    \A r \in Dispatches :
        (Dispatched(r) /\ args[r].validations.given) =>
            /\ Len(validateCalls[r]) = Len(args[r].validations.value)
            /\ \A i \in DOMAIN validateCalls[r] :
                  validateCalls[r][i] = args[r].validations.value[i].schema.id

\* the first of two validations fails and the second is still evaluated
C14_Witness ==
    \E r \in Dispatches :
        /\ Dispatched(r)
        /\ args[r].validations.given
        /\ Len(args[r].validations.value) = 2
        /\ Validate(Event(r).body, args[r].validations.value[1].schema) # ""
        /\ validateCalls[r] = <<"nameRule", "ageRule">>
        /\ HasResponse(r)
        /\ Response(r).statusCode = 400

\* the response the chain carries has the Access-Control-Allow-Origin header
ChainCarriesCors(r) == AllowOrigin \in DOMAIN settled[r].value.headers

\* the response the chain carries has the request id of its own request
ChainCarriesRequestId(r) ==
    /\ XRequestId \in DOMAIN settled[r].value.headers
    /\ settled[r].value.headers[XRequestId] = RequestId(r)

\* C15 as stated: the cors wrapper works on the normalizer's output, so a
\* response that has received its Access-Control-* headers already carries
\* the X-REQUEST-ID of its request.
C15_CorsAfterRequestId ==
    \A r \in Dispatches :
        (config[r].cors /\ TargetSucceeded(r) /\ pc[r] \in {"endpointThen", "done"}) =>
            (ChainCarriesCors(r) => ChainCarriesRequestId(r))

\* C15 amended: on a cors-configured route the endpoint wrapper works on the
\* cors wrapper's output: in a successful dispatch the handler is invoked,
\* then the Access-Control-* headers are attached, then X-REQUEST-ID; the
\* response returned carries both.
C15_RequestIdAfterCors ==
    \A r \in Dispatches :
        (config[r].cors /\ TargetSucceeded(r)) =>
            /\ handlerCalls[r] = 1
            /\ pc[r] \in {"corsThen", "endpointThen", "done"}
            /\ pc[r] = "corsThen" =>
                  /\ ~ChainCarriesCors(r)
                  /\ ~HasResponse(r)
            /\ pc[r] = "endpointThen" =>
                  /\ ChainCarriesCors(r)
                  /\ ~HasResponse(r)
                  /\ settled[r].value.headers = 
                        CorsResponse(config[r], CorsOrigin(config[r], Event(r), HandlerResponse(r)),
                                     HandlerResponse(r)).headers
            /\ pc[r] = "done" =>
                  /\ HasResponse(r)
                  /\ AllowOrigin \in DOMAIN Response(r).headers
                  /\ CarriesRequestId(r)

\* the Access-Control-* headers are on a response that has no X-REQUEST-ID yet
C15_Witness ==
    \E r \in Dispatches :
        /\ config[r].cors
        /\ TargetSucceeded(r)
        /\ pc[r] = "endpointThen"
        /\ ChainCarriesCors(r)
        /\ XRequestId \notin DOMAIN settled[r].value.headers

\* what the arguments and the handler outcome of r alone determine
OwnOutcome(r) ==
    IF ReturnedBeforeHandler(r)
    THEN /\ Response(r).statusCode = 400
         /\ Response(r).body.message \subseteq ValidatorMessages(r)
         /\ ValidatorMessages(r) \subseteq Response(r).body.message
    ELSE IF handlerResult[r].outcome = "rejected"
    THEN /\ Response(r).statusCode = 501
         /\ Response(r).body = [message |-> handlerResult[r].error.message]
    ELSE IF TargetSucceeded(r)
    THEN /\ Response(r).statusCode = HandlerResponse(r).statusCode
         /\ Response(r).body = HandlerResponse(r).body
         /\ config[r].cors =>
               Response(r).headers[AllowOrigin] =
                   CorsOrigin(config[r], Event(r), HandlerResponse(r))
    ELSE Response(r).statusCode = 501

\* C16: dispatches in flight together do not interfere: whatever the
\* interleaving of their steps, every response carries the X-REQUEST-ID of its
\* own request and the status and body its own validation and handler outcome
\* determine.
C16_DispatchesDoNotInterfere ==
    \A r \in Requests : HasResponse(r) => (CarriesRequestId(r) /\ OwnOutcome(r))

\* one call has been answered while another, dispatched with a different
\* request id, is still in flight with its handler already rejected
C16_Witness ==
    /\ HasResponse("d2")
    /\ pc["d1"] = "endpointCatch"
    /\ RequestId("d1") # RequestId("d2")
    /\ handlerResult["d1"].outcome = "rejected"
    /\ handlerResult["d2"].outcome = "fulfilled"
    /\ config["d2"].cors
    /\ Response("d2").statusCode = 404

HandlerSettled(r) == handlerResult[r].outcome \in {"fulfilled", "rejected"}

\* C17: a dispatch whose validation fails has its one response at once; a
\* dispatch whose handler settles, fulfilled or rejected, eventually has one;
\* a response once produced is never replaced by a second one; and while the
\* handler has not settled the dispatch stays pending without a response.
C17_SingleResponse ==
    /\ \A r \in Dispatches : HandlerSettled(r) ~> HasResponse(r)
    /\ [](\A r \in Dispatches :
            (Dispatched(r) /\ ValidatorMessages(r) \ {""} # {}) => HasResponse(r))
    /\ [][\A r \in Dispatches : HasResponse(r) => result'[r] = result[r]]_vars
    /\ [](\A r \in Dispatches :
            handlerResult[r].outcome = "pending" => (pc[r] = "pending" /\ result[r] = NoResult))

\* the handler fulfilled, the origin function threw, and the response is there
C17_Witness ==
    \E r \in Dispatches :
        /\ handlerResult[r].outcome = "fulfilled"
        /\ OriginFunctionFails(r)
        /\ pc[r] = "done"
        /\ HasResponse(r)

HandlerFailed(r) == handlerResult[r].outcome \in {"threw", "rejected"}

\* C18: there is no retry: a dispatch calls the handler at most once and hands
\* each validation to the validator at most once, and once the handler has
\* failed or the 400 or 501 response is there, no step calls the handler or
\* the validator again for that request.
C18_NoRetry ==
    /\ [](\A r \in Dispatches :
            /\ handlerCalls[r] <= 1
            /\ Dispatched(r) =>
                  Len(validateCalls[r]) <=
                      (IF args[r].validations.given THEN Len(args[r].validations.value) ELSE 0))
    /\ [][\A r \in Dispatches :
            (HandlerFailed(r) \/ HasResponse(r)) =>
                /\ handlerCalls'[r] = handlerCalls[r]
                /\ validateCalls'[r] = validateCalls[r]]_vars

\* the handler rejected, the 501 is there and the handler was called once
C18_Witness ==
    \E r \in Dispatches :
        /\ handlerResult[r].outcome = "rejected"
        /\ HasResponse(r)
        /\ Response(r).statusCode = 501
        /\ handlerCalls[r] = 1

\* C19: when a dispatch supplies no validations argument, or an empty
\* sequence, the validator is not called and the handler is called exactly
\* once: validation is skipped, not failed.
C19_NoValidationsSkipsValidation ==
    \A r \in Dispatches :
        (Dispatched(r) /\ ~HasValidations(r)) =>
            /\ validateCalls[r] = <<>>
            /\ handlerCalls[r] = 1
            /\ ~ReturnedBeforeHandler(r)
            /\ handlerResult[r].outcome # "notCalled"

\* an empty sequence of validations was supplied and the handler has answered
C19_Witness ==
    \E r \in Dispatches :
        /\ Dispatched(r)
        /\ args[r].validations = Some(<<>>)
        /\ handlerCalls[r] = 1
        /\ pc[r] = "done"
        /\ Response(r).statusCode = 200

\* the message of the failure raised inside the pipeline after the handler fulfilled
PipelineFailureMessage(r) ==
    IF OriginFunctionFails(r) THEN OriginFunctionError.message
    ELSE IF config[r].cors THEN "Cannot read property 'addHeaders' of undefined"
    ELSE "Cannot read property 'addHeader' of undefined"

\* C20: a failure raised after the handler fulfilled, inside the wrapped
\* pipeline (the origin function throwing, or a header being attached to a
\* handler result that is no response), is contained like a handler failure:
\* the dispatch does not reject, it resolves to a 501 response with that
\* failure's message and the X-REQUEST-ID header.
C20_PipelineFailureBecomes501 ==
    \A r \in Dispatches :
        (handlerResult[r].outcome = "fulfilled" /\ ~TargetSucceeded(r)) =>
            /\ pc[r] \in {"corsThen", "endpointThen", "endpointCatch", "done"}
            /\ result[r].kind # "thrown"
            /\ pc[r] = "done" =>
                  /\ HasResponse(r)
                  /\ Response(r).statusCode = 501
                  /\ Response(r).body = [message |-> PipelineFailureMessage(r)]
                  /\ CarriesRequestId(r)
                  /\ DOMAIN Response(r).headers = {XRequestId}

\* the handler fulfilled with a response and the origin function threw
C20_Witness ==
    \E r \in Dispatches :
        /\ HandlerSucceeded(r)
        /\ OriginFunctionFails(r)
        /\ pc[r] = "done"
        /\ Response(r).statusCode = 501
        /\ Response(r).body = [message |-> "origin denied"]
        /\ originCalls[r] = 1

====
